---------------------------- MODULE Spec2Model ----------------------------
(***************************************************************************)
(* Model of GRACENOBLE/backend-starter-with-auth: the auth initializer     *)
(* (internal/auth), the server constructor, the chi router with its CORS   *)
(* middleware and the five HTTP handlers (internal/server/routes.go).      *)
(*                                                                         *)
(* A Go string is a sequence of tokens: single characters where the code   *)
(* parses the string (PORT, CORS_ALLOWED_ORIGINS), larger pieces such as   *)
(* "http://" or a host elsewhere.  String concatenation is \o.             *)
(***************************************************************************)
EXTENDS Integers, Sequences, FiniteSets, TLC

VARIABLES
  env,        \* the process environment: a function from the set keys to their values
  dotenv,     \* the .env file of the working directory: [present, vars]
  alive,      \* FALSE once log.Fatal has terminated the process
  Store,      \* gothic.Store, the session store of the auth library
  providers,  \* goth's provider registry: the registered providers, one per name
  srv,        \* the *http.Server NewServer returned (with the PORT string it
              \* read), or NoServer
  phase,      \* "startup" until the server serves, then "serving"
  authCalls,  \* completed NewAuth invocations
  reqs        \* the requests being served, one per goroutine slot

vars == <<env, dotenv, alive, Store, providers, srv, phase, authCalls, reqs>>

---------------------------------------------------------------------------
(* Bounds of the model *)

\* longest PORT string drawn
MaxPortLen == 3
\* NewAuth invocations in one run
MaxNewAuthCalls == 2
\* requests handled concurrently
MaxInFlight == 2
\* most segments in a request path drawn
MaxPathLen == 3

---------------------------------------------------------------------------
(* Strings and the environment *)

RECURSIVE SeqsUpTo(_, _)
SeqsUpTo(S, n) ==
  IF n = 0 THEN {<<>>}
  ELSE LET shorter == SeqsUpTo(S, n - 1)
       IN  shorter \cup {Append(s, c) : s \in {t \in shorter : Len(t) = n - 1}, c \in S}

\* os.Getenv: the value, or "" for a variable that is not set
Getenv(e, k) == IF k \in DOMAIN e THEN e[k] ELSE <<>>

\* godotenv.Load's effect on the environment: every variable of the file that
\* the process environment does not already define is set; defined ones are kept
LoadedEnvOverload(e, file) ==
  [k \in (DOMAIN e) \cup (DOMAIN file) |-> IF k \in DOMAIN file THEN file[k] ELSE e[k]]
LoadedEnv(e, file) ==
  [k \in (DOMAIN e) \cup (DOMAIN file) |-> IF k \in DOMAIN e THEN e[k] ELSE file[k]]

\* godotenv.Load fails when the file cannot be read
LoadFails(d) == ~d.present

---------------------------------------------------------------------------
(* strconv.Atoi and the %d verb, on character sequences *)

DigitChars == <<"0", "1", "2", "3", "4", "5", "6", "7", "8", "9">>

IsDigit(c) == \E d \in 1..10 : DigitChars[d] = c

DigitVal(c) == (CHOOSE d \in 1..10 : DigitChars[d] = c) - 1

RECURSIVE ParseDigits(_, _)
ParseDigits(s, acc) ==
  IF s = <<>> THEN acc ELSE ParseDigits(Tail(s), acc * 10 + DigitVal(Head(s)))

\* strconv.Atoi: an optional sign, then one or more decimal digits; anything
\* else is a syntax error and the value 0.  (Strings of at most MaxPortLen
\* digits stay far inside the int range, so the range error never arises.)
Atoi(s) ==
  LET signed == s # <<>> /\ Head(s) \in {"+", "-"}
      digits == IF signed THEN Tail(s) ELSE s
  IN  IF digits = <<>> \/ \E i \in 1..Len(digits) : ~IsDigit(digits[i])
      THEN [val |-> 0, ok |-> FALSE]
      ELSE [val |-> IF Head(s) = "-" THEN 0 - ParseDigits(digits, 0)
                                     ELSE ParseDigits(digits, 0),
            ok  |-> TRUE]

RECURSIVE NatToStr(_)
NatToStr(n) ==
  IF n < 10 THEN <<DigitChars[n + 1]>>
  ELSE Append(NatToStr(n \div 10), DigitChars[(n % 10) + 1])

\* fmt's %d
Itoa(n) == IF n < 0 THEN <<"-">> \o NatToStr(0 - n) ELSE NatToStr(n)

---------------------------------------------------------------------------
(* internal/auth: NewAuth *)

MaxAge == 86400 * 30

IsProd == FALSE

\* gothic's package initializer installs a cookie store of its own before
\* NewAuth replaces it
LibraryStore ==
  [key |-> <<>>, maxAge |-> 0, path |-> "", httpOnly |-> TRUE,
   secure |-> FALSE, sameSite |-> "Default", by |-> "gothic"]

\* sessions.NewCookieStore(key) followed by NewAuth's option assignments
NewCookieStoreSecure(key) ==
  [key |-> key, maxAge |-> MaxAge, path |-> "/", httpOnly |-> TRUE,
   secure |-> TRUE, sameSite |-> "Lax", by |-> "NewAuth"]
NewCookieStore(key) ==
  [key |-> key, maxAge |-> MaxAge, path |-> "/", httpOnly |-> TRUE,
   secure |-> IsProd, sameSite |-> "Lax", by |-> "NewAuth"]

\* google.New(clientKey, secret, callbackURL)
GoogleNew(clientKey, secret, callbackURL) ==
  [name |-> "google", clientKey |-> clientKey, secret |-> secret,
   callbackURL |-> callbackURL]

\* goth.UseProviders(p): providers[p.Name()] = p
UseProviders(reg, p) == {q \in reg : q.name # p.name} \cup {p}

GoogleCallbackURLFixed(port) == <<"http://localhost:", "3000", "/auth/google/callback">>
GoogleCallbackURL(port) == <<"http://localhost:">> \o port \o <<"/auth/google/callback">>

NewAuthTolerant ==
  /\ alive
  /\ phase = "startup"
  /\ authCalls < MaxNewAuthCalls
  /\ LET e == IF LoadFails(dotenv) THEN env ELSE LoadedEnv(env, dotenv.vars)
     IN  /\ env' = e
         /\ Store' = NewCookieStore(Getenv(e, "COOKIE_STORE_KEY"))
         /\ providers' =
              UseProviders(providers,
                GoogleNew(Getenv(e, "GOOGLE_CLIENT_ID"),
                          Getenv(e, "GOOGLE_CLIENT_SECRET"),
                          GoogleCallbackURL(Getenv(e, "PORT"))))
         /\ authCalls' = authCalls + 1
         /\ alive' = alive
  /\ UNCHANGED <<dotenv, srv, phase, reqs>>
NewAuth ==
  /\ alive
  /\ phase = "startup"
  /\ authCalls < MaxNewAuthCalls
  /\ IF LoadFails(dotenv)
     THEN /\ alive' = FALSE                      \* log.Fatal
          /\ UNCHANGED <<env, Store, providers, authCalls>>
     ELSE LET e == LoadedEnv(env, dotenv.vars)
          IN  /\ env' = e
              /\ Store' = NewCookieStore(Getenv(e, "COOKIE_STORE_KEY"))
              /\ providers' =
                   UseProviders(providers,
                     GoogleNew(Getenv(e, "GOOGLE_CLIENT_ID"),
                               Getenv(e, "GOOGLE_CLIENT_SECRET"),
                               GoogleCallbackURL(Getenv(e, "PORT"))))
              /\ authCalls' = authCalls + 1
              /\ alive' = alive
  /\ UNCHANGED <<dotenv, srv, phase, reqs>>

---------------------------------------------------------------------------
(* net/http: the response a handler builds through its http.ResponseWriter *)

\* a header is a set of <<name, value>> pairs, one per name
HeaderGet(h, k) == IF \E p \in h : p[1] = k THEN (CHOOSE p \in h : p[1] = k)[2] ELSE <<>>

HeaderHas(h, k) == \E p \in h : p[1] = k

HeaderSet(h, k, v) == {p \in h : p[1] # k} \cup {<<k, v>>}

\* the ResponseWriter before the handler has touched it
NewResponse == [wroteHeader |-> FALSE, status |-> 0, header |-> {}, body |-> <<>>]

\* w.Header().Set(k, v): ignored by the response once the status line is written
SetHeader(w, k, v) ==
  IF w.wroteHeader THEN w ELSE [w EXCEPT !.header = HeaderSet(@, k, v)]

\* w.WriteHeader(code): the first call fixes the status
WriteHeader(w, code) ==
  IF w.wroteHeader THEN w ELSE [w EXCEPT !.wroteHeader = TRUE, !.status = code]

\* http.DetectContentType on the first bytes written: markup is recognised by
\* its opening tag, everything else that is text is text/plain
DetectContentType(data) ==
  IF data # <<>> /\ Head(data) \in {"<html", "<a href=\""}
  THEN <<"text/html; charset=utf-8">>
  ELSE <<"text/plain; charset=utf-8">>

\* w.Write(data): writes status 200 first when no status was written, and
\* sniffs the Content-Type from the first data when the handler set none
Write(w, data) ==
  LET typed == IF HeaderHas(w.header, "Content-Type") \/ w.body # <<>>
               THEN w.header
               ELSE HeaderSet(w.header, "Content-Type", DetectContentType(data))
      started == IF w.wroteHeader THEN w
                 ELSE [w EXCEPT !.wroteHeader = TRUE, !.status = 200]
  IN  [started EXCEPT !.header = typed, !.body = @ \o data]

\* http.Error(w, msg, code)
HttpError(w, msg, code) ==
  Write(WriteHeader(SetHeader(SetHeader(w, "Content-Type", <<"text/plain; charset=utf-8">>),
                              "X-Content-Type-Options", <<"nosniff">>),
                    code),
        msg \o <<"\n">>)

\* the directory of the request path, as path.Split gives it
PathDir(path) ==
  IF path = <<>> THEN <<"/">>
  ELSE LET Dir[i \in 0..(Len(path) - 1)] ==
             IF i = 0 THEN <<"/">> ELSE Dir[i - 1] \o <<path[i], "/">>
       IN  Dir[Len(path) - 1]

\* http.Redirect(w, r, url, code) for a GET request: a url with no scheme that
\* is not rooted is made relative to the request path's directory
HttpRedirect(w, path, url, code) ==
  LET absolute == url # <<>> /\ Head(url) \in {"http://", "https://", "/"}
      target   == IF absolute THEN url ELSE PathDir(path) \o url
      located  == SetHeader(w, "Location", target)
      typed    == IF HeaderHas(w.header, "Content-Type") THEN located
                  ELSE SetHeader(located, "Content-Type", <<"text/html; charset=utf-8">>)
  IN  Write(WriteHeader(typed, code), <<"<a href=\"">> \o target \o <<"\">redirect</a>.\n\n">>)

---------------------------------------------------------------------------
(* encoding/json: Marshal of a map[string]string *)

\* the keys the collaborators use, in the sorted order Marshal emits them
JsonKeyOrder == <<"error", "message", "status">>

NilMap == [nil |-> TRUE, kv |-> {}]

MakeMap(pairs) == [nil |-> FALSE, kv |-> pairs]

MapKeys(m) == {p[1] : p \in m.kv}

MapGet(m, k) == (CHOOSE p \in m.kv : p[1] = k)[2]

\* json.Marshal: null for a nil map, else {"k":"v",...} with the keys sorted
Marshal(m) ==
  IF m.nil THEN <<"null">>
  ELSE LET Members[i \in 0..Len(JsonKeyOrder)] ==
             IF i = 0 THEN <<>>
             ELSE LET k == JsonKeyOrder[i]
                  IN  IF k \in MapKeys(m)
                      THEN Members[i - 1]
                             \o (IF Members[i - 1] = <<>> THEN <<>> ELSE <<",">>)
                             \o <<"\"", k, "\"", ":", "\"", MapGet(m, k), "\"">>
                      ELSE Members[i - 1]
       IN  <<"{">> \o Members[Len(JsonKeyOrder)] \o <<"}">>

---------------------------------------------------------------------------
(* internal/server: RegisterRoutes *)

\* index of the first token of s equal to c, or 0
IndexOf(s, c) ==
  IF \E i \in 1..Len(s) : s[i] = c
  THEN CHOOSE i \in 1..Len(s) : s[i] = c /\ \A j \in 1..(i - 1) : s[j] # c
  ELSE 0

\* strings.Split(s, sep) for a one-character separator
RECURSIVE Split(_, _)
Split(s, sep) ==
  LET i == IndexOf(s, sep)
  IN  IF i = 0 THEN <<s>>
      ELSE <<SubSeq(s, 1, i - 1)>> \o Split(SubSeq(s, i + 1, Len(s)), sep)

IsSpace(c) == c \in {" ", "\t"}

\* strings.TrimSpace
RECURSIVE TrimSpace(_)
TrimSpace(s) ==
  IF s = <<>> THEN s
  ELSE IF IsSpace(Head(s)) THEN TrimSpace(Tail(s))
  ELSE IF IsSpace(s[Len(s)]) THEN TrimSpace(SubSeq(s, 1, Len(s) - 1))
  ELSE s

DefaultOrigins == << <<"https://", "*">>, <<"http://", "*">> >>

\* the allow-list RegisterRoutes builds from CORS_ALLOWED_ORIGINS
AllowedOriginsOfUntrimmed(allowedOriginsEnv) ==
  LET parts == IF allowedOriginsEnv # <<>> THEN Split(allowedOriginsEnv, ",") ELSE <<>>
      Kept[i \in 0..Len(parts)] ==
        IF i = 0 THEN <<>>
        ELSE IF TrimSpace(parts[i]) # <<>> THEN Append(Kept[i - 1], parts[i])
        ELSE Kept[i - 1]
      allowedOrigins == Kept[Len(parts)]
  IN  IF Len(allowedOrigins) = 0 THEN DefaultOrigins ELSE allowedOrigins
AllowedOriginsOf(allowedOriginsEnv) ==
  LET parts == IF allowedOriginsEnv # <<>> THEN Split(allowedOriginsEnv, ",") ELSE <<>>
      Kept[i \in 0..Len(parts)] ==
        IF i = 0 THEN <<>>
        ELSE IF TrimSpace(parts[i]) # <<>> THEN Append(Kept[i - 1], TrimSpace(parts[i]))
        ELSE Kept[i - 1]
      allowedOrigins == Kept[Len(parts)]
  IN  IF Len(allowedOrigins) = 0 THEN DefaultOrigins ELSE allowedOrigins

\* cors.Options of the CORS middleware
AllowedMethods == {"GET", "POST", "PUT", "DELETE", "OPTIONS", "PATCH"}

AllowedHeaders == {"Accept", "Authorization", "Content-Type"}

\* the routes r.Get registers, in order; a path is the sequence of its segments
RoutesPost ==
  << [method |-> "GET",  pattern |-> <<>>,                                handler |-> "HelloWorldHandler"],
     [method |-> "GET",  pattern |-> <<"health">>,                        handler |-> "healthHandler"],
     [method |-> "GET",  pattern |-> <<"auth", "{provider}">>,            handler |-> "beginAuthHandler"],
     [method |-> "GET",  pattern |-> <<"auth", "{provider}", "callback">>, handler |-> "getAuthCallbackFunction"],
     [method |-> "POST", pattern |-> <<"logout", "{provider}">>,          handler |-> "logout"] >>
Routes ==
  << [method |-> "GET", pattern |-> <<>>,                                handler |-> "HelloWorldHandler"],
     [method |-> "GET", pattern |-> <<"health">>,                        handler |-> "healthHandler"],
     [method |-> "GET", pattern |-> <<"auth", "{provider}">>,            handler |-> "beginAuthHandler"],
     [method |-> "GET", pattern |-> <<"auth", "{provider}", "callback">>, handler |-> "getAuthCallbackFunction"],
     [method |-> "GET", pattern |-> <<"logout", "{provider}">>,          handler |-> "logout"] >>

\* the handler chain RegisterRoutes returns: Logger, CORS, then the routes
RegisterRoutesResult(e) ==
  [allowedOrigins |-> AllowedOriginsOf(Getenv(e, "CORS_ALLOWED_ORIGINS")),
   routes         |-> Routes]

NoRouter == [allowedOrigins |-> <<>>, routes |-> <<>>]

---------------------------------------------------------------------------
(* internal/server: NewServer *)

NoServer ==
  [built |-> FALSE, portRead |-> <<>>, Addr |-> <<>>, Handler |-> NoRouter,
   IdleTimeout |-> 0, ReadTimeout |-> 0, WriteTimeout |-> 0]

\* the bound address: ":" and the port number in decimal; a PORT that Atoi
\* rejects leaves the port at its zero value
ServerAddrRaw(port) == <<":">> \o port
ServerAddr(port) == <<":">> \o Itoa(Atoi(port).val)

\* NewServer reads PORT, then builds the router (whose godotenv.Load may add the
\* file's variables to the environment; a failed load is only logged)
NewServerSwappedTimeouts ==
  /\ alive
  /\ phase = "startup"
  /\ LET port == Getenv(env, "PORT")
         e    == IF LoadFails(dotenv) THEN env ELSE LoadedEnv(env, dotenv.vars)
     IN  /\ env' = e
         /\ srv' = [built        |-> TRUE,
                    portRead     |-> port,
                    Addr         |-> ServerAddr(port),
                    Handler      |-> RegisterRoutesResult(e),
                    IdleTimeout  |-> 60,
                    ReadTimeout  |-> 30,
                    WriteTimeout |-> 10]
  /\ UNCHANGED <<dotenv, alive, Store, providers, phase, authCalls, reqs>>
NewServer ==
  /\ alive
  /\ phase = "startup"
  /\ LET port == Getenv(env, "PORT")
         e    == IF LoadFails(dotenv) THEN env ELSE LoadedEnv(env, dotenv.vars)
     IN  /\ env' = e
         /\ srv' = [built        |-> TRUE,
                    portRead     |-> port,
                    Addr         |-> ServerAddr(port),
                    Handler      |-> RegisterRoutesResult(e),
                    IdleTimeout  |-> 60,
                    ReadTimeout  |-> 10,
                    WriteTimeout |-> 30]
  /\ UNCHANGED <<dotenv, alive, Store, providers, phase, authCalls, reqs>>

\* main: the auth initializer has run and the server is built; it starts serving
ListenAndServe ==
  /\ alive
  /\ phase = "startup"
  /\ authCalls >= 1
  /\ srv.built
  /\ phase' = "serving"
  /\ UNCHANGED <<env, dotenv, alive, Store, providers, srv, authCalls, reqs>>

\* the .env file is removed from the working directory
RemoveDotenv ==
  /\ alive
  /\ dotenv.present
  /\ dotenv' = [dotenv EXCEPT !.present = FALSE]
  /\ UNCHANGED <<env, alive, Store, providers, srv, phase, authCalls, reqs>>

---------------------------------------------------------------------------
(* Requests: arrival, the middleware chain and the router *)

NoVars == [k \in {} |-> <<>>]

\* a goroutine slot: the request it serves, where the request is ("received",
\* "routed" to a handler, "done" when the handler returned, "fatal" when the
\* handler terminated the process), what the router resolved (handler and the
\* {provider} URL parameter), the "provider" value of the context the handler
\* handed to gothic, what the collaborators answered, and the response so far
IdleSlot ==
  [st |-> "idle", method |-> "", path |-> <<>>, origin |-> <<>>, acrm |-> "",
   acrh |-> {}, session |-> "none", handler |-> "", provider |-> "",
   ctxProvider |-> "", health |-> NilMap, authErr |-> <<>>, w |-> NewResponse]

\* a request: method, path segments, Origin, Access-Control-Request-Method,
\* Access-Control-Request-Headers and the state of its session cookie
Request(method, path, origin, acrm, acrh, session) ==
  [IdleSlot EXCEPT !.method = method, !.path = path, !.origin = origin,
                   !.acrm = acrm, !.acrh = acrh, !.session = session]

\* the server accepts a request and hands it to a goroutine
Arrive(i, rq) ==
  /\ alive
  /\ phase = "serving"
  /\ reqs[i].st = "idle"
  /\ reqs' = [reqs EXCEPT ![i] = [rq EXCEPT !.st = "received"]]
  /\ UNCHANGED <<env, dotenv, alive, Store, providers, srv, phase, authCalls>>

\* go-chi/cors: the origin test against cors.Options.AllowedOrigins ("*" allows
\* all, an entry with a "*" is a prefix/suffix wildcard, others match exactly)
IsOriginAllowed(allowedOrigins, origin) ==
  \/ \E n \in 1..Len(allowedOrigins) : allowedOrigins[n] = <<"*">>
  \/ \E n \in 1..Len(allowedOrigins) :
       LET o == allowedOrigins[n]
           star == IndexOf(o, "*")
       IN  IF star = 0 THEN o = origin
           ELSE LET prefix == SubSeq(o, 1, star - 1)
                    suffix == SubSeq(o, star + 1, Len(o))
                IN  /\ Len(origin) >= Len(prefix) + Len(suffix)
                    /\ SubSeq(origin, 1, Len(prefix)) = prefix
                    /\ SubSeq(origin, Len(origin) - Len(suffix) + 1, Len(origin)) = suffix

\* go-chi/cors: OPTIONS is always an allowed method, else cors.Options.AllowedMethods
IsMethodAllowed(method) == method = "OPTIONS" \/ method \in AllowedMethods

\* go-chi/cors: every requested header must be allowed (Origin always is)
AreHeadersAllowed(requested) == requested \subseteq (AllowedHeaders \cup {"Origin"})

\* the Access-Control-Allow-Origin value the middleware grants
GrantedOrigin(allowedOrigins, origin) ==
  IF \E n \in 1..Len(allowedOrigins) : allowedOrigins[n] = <<"*">> THEN <<"*">> ELSE origin

\* go-chi/cors handlePreflight: the CORS headers are added only when origin,
\* requested method and requested headers are all allowed
HandlePreflightOriginOnly(w, allowedOrigins, r) ==
  LET varied == SetHeader(w, "Vary", <<"Origin">>)
  IN  IF r.origin = <<>> \/ ~IsOriginAllowed(allowedOrigins, r.origin)
      THEN varied
      ELSE SetHeader(varied, "Access-Control-Allow-Origin",
                     GrantedOrigin(allowedOrigins, r.origin))
HandlePreflight(w, allowedOrigins, r) ==
  LET varied == SetHeader(w, "Vary", <<"Origin">>)
  IN  IF \/ r.origin = <<>>
         \/ ~IsOriginAllowed(allowedOrigins, r.origin)
         \/ ~IsMethodAllowed(r.acrm)
         \/ ~AreHeadersAllowed(r.acrh)
      THEN varied
      ELSE SetHeader(SetHeader(varied, "Access-Control-Allow-Origin",
                               GrantedOrigin(allowedOrigins, r.origin)),
                     "Access-Control-Allow-Methods", <<r.acrm>>)

\* go-chi/cors handleActualRequest
HandleActualRequest(w, allowedOrigins, r) ==
  LET varied == SetHeader(w, "Vary", <<"Origin">>)
  IN  IF \/ r.origin = <<>>
         \/ ~IsOriginAllowed(allowedOrigins, r.origin)
         \/ ~IsMethodAllowed(r.method)
      THEN varied
      ELSE SetHeader(varied, "Access-Control-Allow-Origin",
                     GrantedOrigin(allowedOrigins, r.origin))

\* chi: a pattern matches a path of as many segments, literal segments equal
\* and {provider} standing for a non-empty segment
PatternMatchesPrefix(pattern, path) ==
  /\ Len(pattern) <= Len(path)
  /\ \A n \in 1..Len(pattern) :
       IF pattern[n] = "{provider}" THEN path[n] # "" ELSE pattern[n] = path[n]
PatternMatches(pattern, path) ==
  /\ Len(pattern) = Len(path)
  /\ \A n \in 1..Len(pattern) :
       IF pattern[n] = "{provider}" THEN path[n] # "" ELSE pattern[n] = path[n]

\* chi.URLParam(r, "provider")
URLParam(pattern, path) ==
  IF IndexOf(pattern, "{provider}") = 0 THEN "" ELSE path[IndexOf(pattern, "{provider}")]

NotFoundBody == <<"404 page not found">>

\* the handler chain on one request: the CORS middleware answers a preflight by
\* itself; any other request goes to the router, which dispatches it to the
\* handler of the route matching method and path, or answers 405 (the path is
\* registered for another method) or 404
ServeHTTP(i) ==
  /\ alive
  /\ reqs[i].st = "received"
  /\ LET r == reqs[i]
         h == srv.Handler
         byPath == {n \in 1..Len(h.routes) : PatternMatches(h.routes[n].pattern, r.path)}
         byBoth == {n \in byPath : h.routes[n].method = r.method}
     IN  IF r.method = "OPTIONS" /\ r.acrm # ""
         THEN reqs' = [reqs EXCEPT ![i].w = WriteHeader(HandlePreflight(r.w, h.allowedOrigins, r), 200),
                                   ![i].st = "done"]
         ELSE LET w == HandleActualRequest(r.w, h.allowedOrigins, r)
              IN  IF byBoth # {}
                  THEN LET route == h.routes[CHOOSE n \in byBoth : \A m \in byBoth : n <= m]
                       IN  reqs' = [reqs EXCEPT ![i].w = w,
                                                ![i].handler = route.handler,
                                                ![i].provider = URLParam(route.pattern, r.path),
                                                ![i].st = "routed"]
                  ELSE IF byPath # {}
                  THEN reqs' = [reqs EXCEPT ![i].w = WriteHeader(w, 405), ![i].st = "done"]
                  ELSE reqs' = [reqs EXCEPT ![i].w = HttpError(w, NotFoundBody, 404),
                                            ![i].st = "done"]
  /\ UNCHANGED <<env, dotenv, alive, Store, providers, srv, phase, authCalls>>

---------------------------------------------------------------------------
(* goth / gothic, as the handlers use them *)

IsRegistered(reg, name) == \E p \in reg : p.name = name

\* goth.GetProvider's error for a name that is not registered
NoProviderError(name) == <<"no provider for ", name, " exists">>

NoSessionError == <<"could not find a matching session for this request">>

ExchangeError == <<"oauth2: cannot fetch token">>

\* the consent-screen URL of a registered provider
AuthURL(p) ==
  <<"https://", "accounts.google.com/o/oauth2/auth?client_id=">> \o p.clientKey
    \o <<"&redirect_uri=">> \o p.callbackURL

\* gothic.GetProviderName on a request whose context carries the value the
\* handler stored under "provider" (the requests drawn have no query string,
\* which gothic would look at first)
GetProviderName(ctxValue) == ctxValue

\* gothic.BeginAuthHandler: a redirect (307) to the provider's consent screen,
\* or status 400 with the error text when no auth URL can be built
GothicBeginAuthHandlerServerError(w, path, reg, name) ==
  IF IsRegistered(reg, name)
  THEN HttpRedirect(w, path, AuthURL(CHOOSE p \in reg : p.name = name), 307)
  ELSE Write(WriteHeader(w, 500), NoProviderError(name) \o <<"\n">>)
GothicBeginAuthHandler(w, path, reg, name) ==
  IF IsRegistered(reg, name)
  THEN HttpRedirect(w, path, AuthURL(CHOOSE p \in reg : p.name = name), 307)
  ELSE Write(WriteHeader(w, 400), NoProviderError(name) \o <<"\n">>)

\* gothic.Logout: expires the session cookie, unless the request's cookie
\* cannot be decoded (the error is returned and the caller drops it)
GothicLogout(w, session) ==
  IF session = "bad" THEN w
  ELSE SetHeader(w, "Set-Cookie", <<"_gothic_session=; Max-Age=0">>)

\* gothic.CompleteUserAuth: the outcomes it can have for a request.  The
\* provider must be registered and the session must hold the provider's
\* state; the token exchange with the provider then succeeds or fails.
CompleteUserAuth(w, reg, name, session) ==
  IF ~IsRegistered(reg, name)
  THEN {[ok |-> FALSE, err |-> NoProviderError(name), w |-> w]}
  ELSE IF session # "auth"
  THEN {[ok |-> FALSE, err |-> NoSessionError, w |-> w]}
  ELSE {[ok |-> TRUE,  err |-> <<>>,          w |-> GothicLogout(w, session)],
        [ok |-> FALSE, err |-> ExchangeError, w |-> GothicLogout(w, session)]}

---------------------------------------------------------------------------
(* internal/server: the handlers *)

\* the mappings the database collaborator's Health() may return
HealthMappings ==
  { MakeMap({<<"status", "up">>, <<"message", "It's healthy">>}),
    MakeMap({<<"status", "down">>, <<"error", "db down">>}),
    MakeMap({}),
    NilMap }

Routed(i, handler) == alive /\ reqs[i].st = "routed" /\ reqs[i].handler = handler

HelloWorldHandler(i) ==
  /\ Routed(i, "HelloWorldHandler")
  /\ reqs' = [reqs EXCEPT
       ![i].w = Write(@, Marshal(MakeMap({<<"message", "Hello World">>}))),
       ![i].st = "done"]
  /\ UNCHANGED <<env, dotenv, alive, Store, providers, srv, phase, authCalls>>

healthHandlerStrict(i) ==
  /\ Routed(i, "healthHandler")
  /\ \E m \in HealthMappings :
       reqs' = [reqs EXCEPT
         ![i].health = m,
         ![i].w = IF ~m.nil /\ <<"status", "down">> \in m.kv
                  THEN Write(WriteHeader(@, 503), Marshal(m))
                  ELSE Write(@, Marshal(m)),
         ![i].st = "done"]
  /\ UNCHANGED <<env, dotenv, alive, Store, providers, srv, phase, authCalls>>
healthHandler(i) ==
  /\ Routed(i, "healthHandler")
  /\ \E m \in HealthMappings :
       reqs' = [reqs EXCEPT
         ![i].health = m,
         ![i].w = Write(@, Marshal(m)),
         ![i].st = "done"]
  /\ UNCHANGED <<env, dotenv, alive, Store, providers, srv, phase, authCalls>>

beginAuthHandlerSharedProvider(i) ==
  /\ Routed(i, "beginAuthHandler")
  /\ LET r == reqs[i]
         waiting == {j \in DOMAIN reqs : reqs[j].st = "routed" /\ reqs[j].provider # ""}
         provider == reqs[CHOOSE j \in waiting : \A k \in waiting : j <= k].provider
         ctx == GetProviderName(provider)
     IN  reqs' = [reqs EXCEPT
           ![i].ctxProvider = provider,
           ![i].authErr = IF IsRegistered(providers, ctx) THEN <<>>
                          ELSE NoProviderError(ctx),
           ![i].w = GothicBeginAuthHandler(r.w, r.path, providers, ctx),
           ![i].st = "done"]
  /\ UNCHANGED <<env, dotenv, alive, Store, providers, srv, phase, authCalls>>
beginAuthHandler(i) ==
  /\ Routed(i, "beginAuthHandler")
  /\ LET r == reqs[i]
         provider == r.provider                    \* chi.URLParam(r, "provider")
         ctx == GetProviderName(provider)          \* read back by gothic
     IN  reqs' = [reqs EXCEPT
           ![i].ctxProvider = provider,
           ![i].authErr = IF IsRegistered(providers, ctx) THEN <<>>
                          ELSE NoProviderError(ctx),
           ![i].w = GothicBeginAuthHandler(r.w, r.path, providers, ctx),
           ![i].st = "done"]
  /\ UNCHANGED <<env, dotenv, alive, Store, providers, srv, phase, authCalls>>

getAuthCallbackFunctionServerError(i) ==
  /\ Routed(i, "getAuthCallbackFunction")
  /\ IF LoadFails(dotenv)
     THEN /\ alive' = FALSE
          /\ reqs' = [reqs EXCEPT ![i].st = "fatal"]
          /\ env' = env
     ELSE LET r == reqs[i]
              e == LoadedEnv(env, dotenv.vars)
              redirectURL == Getenv(e, "APP_URI")
          IN  /\ env' = e
              /\ alive' = alive
              /\ \E res \in CompleteUserAuth(r.w, providers,
                                               GetProviderName(r.provider), r.session) :
                   reqs' = [reqs EXCEPT
                     ![i].ctxProvider = r.provider,
                     ![i].authErr = res.err,
                     ![i].w = IF res.ok
                              THEN HttpRedirect(res.w, r.path, redirectURL, 302)
                              ELSE HttpError(res.w, <<"Authentication failed: ">> \o res.err, 500),
                     ![i].st = "done"]
  /\ UNCHANGED <<dotenv, Store, providers, srv, phase, authCalls>>
getAuthCallbackFunction(i) ==
  /\ Routed(i, "getAuthCallbackFunction")
  /\ IF LoadFails(dotenv)
     THEN /\ alive' = FALSE                       \* log.Fatal
          /\ reqs' = [reqs EXCEPT ![i].st = "fatal"]
          /\ env' = env
     ELSE LET r == reqs[i]
              e == LoadedEnv(env, dotenv.vars)
              redirectURL == Getenv(e, "APP_URI")
          IN  /\ env' = e
              /\ alive' = alive
              /\ \E res \in CompleteUserAuth(r.w, providers,
                                               GetProviderName(r.provider), r.session) :
                   reqs' = [reqs EXCEPT
                     ![i].ctxProvider = r.provider,
                     ![i].authErr = res.err,
                     ![i].w = IF res.ok
                              THEN HttpRedirect(res.w, r.path, redirectURL, 302)
                              ELSE HttpError(res.w, <<"Authentication failed: ">> \o res.err, 401),
                     ![i].st = "done"]
  /\ UNCHANGED <<dotenv, Store, providers, srv, phase, authCalls>>

logoutClearingProviders(i) ==
  /\ Routed(i, "logout")
  /\ IF LoadFails(dotenv)
     THEN /\ alive' = FALSE
          /\ reqs' = [reqs EXCEPT ![i].st = "fatal"]
          /\ env' = env
          /\ providers' = providers
     ELSE LET r == reqs[i]
              e == LoadedEnv(env, dotenv.vars)
              postLogoutRedirectURL == Getenv(e, "POST_LOGOUT_REDIRECT_URL")
          IN  /\ env' = e
              /\ alive' = alive
              /\ providers' = {}
              /\ reqs' = [reqs EXCEPT
                   ![i].w = WriteHeader(SetHeader(GothicLogout(r.w, r.session),
                                                  "Location", postLogoutRedirectURL),
                                        307),
                   ![i].st = "done"]
  /\ UNCHANGED <<dotenv, Store, srv, phase, authCalls>>
logout(i) ==
  /\ Routed(i, "logout")
  /\ IF LoadFails(dotenv)
     THEN /\ alive' = FALSE                       \* log.Fatal
          /\ reqs' = [reqs EXCEPT ![i].st = "fatal"]
          /\ env' = env
     ELSE LET r == reqs[i]
              e == LoadedEnv(env, dotenv.vars)
              postLogoutRedirectURL == Getenv(e, "POST_LOGOUT_REDIRECT_URL")
          IN  /\ env' = e
              /\ alive' = alive
              /\ reqs' = [reqs EXCEPT
                   ![i].w = WriteHeader(SetHeader(GothicLogout(r.w, r.session),
                                                  "Location", postLogoutRedirectURL),
                                        307),
                   ![i].st = "done"]
  /\ UNCHANGED <<dotenv, Store, providers, srv, phase, authCalls>>

\* the goroutine ends with its request answered
Finish(i) ==
  /\ alive
  /\ reqs[i].st = "done"
  /\ reqs' = [reqs EXCEPT ![i] = IdleSlot]
  /\ UNCHANGED <<env, dotenv, alive, Store, providers, srv, phase, authCalls>>

---------------------------------------------------------------------------
(* The environments and requests the specifications draw from *)

ConfigKeys ==
  {"APP_URI", "POST_LOGOUT_REDIRECT_URL", "GOOGLE_CLIENT_ID",
   "GOOGLE_CLIENT_SECRET", "COOKIE_STORE_KEY", "PORT"}

\* the value a variable has when the process environment defines it
EnvValueOf(k) == IF k = "PORT" THEN <<"8", "0">> ELSE <<"http://", "env.example/", k>>

\* the value a variable has when the .env file defines it
FileValueOf(k) == IF k = "PORT" THEN <<"8", "1">> ELSE <<"http://", "file.example/", k>>

InitialSlots == [i \in 1..MaxInFlight |-> IdleSlot]

Methods == {"GET", "POST", "HEAD", "OPTIONS"}

PathSegs == {"health", "auth", "logout", "callback", "google", ""}

\* request paths: an empty segment only as the last one (a trailing slash)
Paths ==
  {p \in SeqsUpTo(PathSegs, MaxPathLen) : \A n \in 1..(Len(p) - 1) : p[n] # ""}

Origins == {<<>>, <<"http://", "a">>, <<"http://", "c">>, <<"ftp://", "c">>}

\* CORS_ALLOWED_ORIGINS as set in the environment
CorsEnvValues ==
  { <<>>,
    <<"http://", "a">>,
    <<"http://", "a", ",", " ", "http://", "b", " ">>,
    <<" ", ",", " ">>,
    <<"*">> }

RouteProbes == {Request(m, p, <<>>, "", {}, "none") : m \in Methods, p \in Paths}

CorsProbes ==
  {Request(m, p, o, a, h, "none") :
     m \in {"OPTIONS", "GET"}, p \in {<<>>, <<"nope">>}, o \in Origins,
     a \in {"", "GET", "HEAD"}, h \in {{}, {"Content-Type"}, {"X-Custom"}}}

Sessions == {"none", "auth", "bad"}

HandlerRequests ==
  {Request("GET", p, <<>>, "", {}, "none") : p \in {<<>>, <<"health">>}}
    \cup {Request("GET", p, <<>>, "", {}, c) :
            p \in {<<"auth", n>> : n \in {"google", "github"}}
               \cup {<<"auth", n, "callback">> : n \in {"google", "github"}}
               \cup {<<"logout", n>> : n \in {"google", "github"}},
            c \in Sessions}

---------------------------------------------------------------------------
(* Routing: the handler chain as a function of one request and of
   CORS_ALLOWED_ORIGINS *)

InitRouting ==
  /\ env \in {[k \in {"APP_URI", "POST_LOGOUT_REDIRECT_URL"} |-> EnvValueOf(k)]}
       \cup {[k \in {"APP_URI", "POST_LOGOUT_REDIRECT_URL", "CORS_ALLOWED_ORIGINS"} |->
                IF k = "CORS_ALLOWED_ORIGINS" THEN c ELSE EnvValueOf(k)] : c \in CorsEnvValues}
  /\ dotenv = [present |-> TRUE, vars |-> NoVars]
  /\ alive = TRUE
  /\ Store = LibraryStore
  /\ providers = {}
  /\ srv = NoServer
  /\ phase = "startup"
  /\ authCalls = 0
  /\ reqs = InitialSlots

NextRouting ==
  \/ NewAuth
  \/ NewServer
  \/ ListenAndServe
  \/ \E rq \in RouteProbes \cup CorsProbes : Arrive(1, rq)
  \/ ServeHTTP(1)
  \/ HelloWorldHandler(1)
  \/ healthHandler(1)
  \/ beginAuthHandler(1)
  \/ getAuthCallbackFunction(1)
  \/ logout(1)

SpecRouting == InitRouting /\ [][NextRouting]_vars

---------------------------------------------------------------------------
(* Handlers: startup, then requests to the five routes, under every source of
   the configuration (process environment, .env file, both, neither) *)

InitHandlers ==
  /\ env \in {NoVars, [k \in ConfigKeys |-> EnvValueOf(k)]}
  /\ dotenv \in {[present |-> b, vars |-> v] :
                   b \in BOOLEAN, v \in {NoVars, [k \in ConfigKeys |-> FileValueOf(k)]}}
  /\ alive = TRUE
  /\ Store = LibraryStore
  /\ providers = {}
  /\ srv = NoServer
  /\ phase = "startup"
  /\ authCalls = 0
  /\ reqs = InitialSlots

NextHandlers ==
  \/ NewAuth
  \/ NewServer
  \/ ListenAndServe
  \/ RemoveDotenv
  \/ \E rq \in HandlerRequests : Arrive(1, rq)
  \/ ServeHTTP(1)
  \/ HelloWorldHandler(1)
  \/ healthHandler(1)
  \/ beginAuthHandler(1)
  \/ getAuthCallbackFunction(1)
  \/ logout(1)
  \/ Finish(1)

SpecHandlers == InitHandlers /\ [][NextHandlers]_vars

---------------------------------------------------------------------------
(* Concurrency: startup, then up to MaxInFlight requests served at once, each
   by its own goroutine; the .env file may disappear at any time *)

ConcurrentRequests ==
  {Request("GET", p, <<>>, "", {}, "auth") :
     p \in { <<>>, <<"health">>,
             <<"auth", "google">>, <<"auth", "github">>,
             <<"auth", "google", "callback">>, <<"auth", "github", "callback">>,
             <<"logout", "google">> }}

InitConcurrent ==
  /\ env = [k \in ConfigKeys |-> EnvValueOf(k)]
  /\ dotenv \in {[present |-> b, vars |-> NoVars] : b \in BOOLEAN}
  /\ alive = TRUE
  /\ Store = LibraryStore
  /\ providers = {}
  /\ srv = NoServer
  /\ phase = "startup"
  /\ authCalls = 0
  /\ reqs = InitialSlots

NextConcurrent ==
  \/ NewAuth
  \/ NewServer
  \/ ListenAndServe
  \/ RemoveDotenv
  \/ \E i \in 1..MaxInFlight :
       \/ \E rq \in ConcurrentRequests : Arrive(i, rq)
       \/ ServeHTTP(i)
       \/ HelloWorldHandler(i)
       \/ healthHandler(i)
       \/ beginAuthHandler(i)
       \/ getAuthCallbackFunction(i)
       \/ logout(i)
       \/ Finish(i)

SpecConcurrent == InitConcurrent /\ [][NextConcurrent]_vars

---------------------------------------------------------------------------
(* The CORS allow-list: RegisterRoutes over every CORS_ALLOWED_ORIGINS string *)

\* longest CORS_ALLOWED_ORIGINS string drawn
MaxCorsLen == 4

\* two one-letter origins, the separator and two kinds of whitespace
CorsChars == {"a", "b", ",", " ", "\t"}

CorsStrings == SeqsUpTo(CorsChars, MaxCorsLen)

InitCors ==
  /\ env \in {NoVars} \cup {[k \in {"CORS_ALLOWED_ORIGINS"} |-> s] : s \in CorsStrings}
  /\ dotenv \in {[present |-> b, vars |-> NoVars] : b \in BOOLEAN}
  /\ alive = TRUE
  /\ Store = LibraryStore
  /\ providers = {}
  /\ srv = NoServer
  /\ phase = "startup"
  /\ authCalls = 0
  /\ reqs = InitialSlots

NextCors == NewServer \/ RemoveDotenv

SpecCors == InitCors /\ [][NextCors]_vars

---------------------------------------------------------------------------
(* Startup over every PORT string: NewServer and NewAuth as functions of the
   environment *)

PortChars == {"0", "8", "x", "-", "+"}

PortStrings == SeqsUpTo(PortChars, MaxPortLen)

InitPort ==
  /\ env \in {NoVars} \cup {[k \in {"PORT"} |-> s] : s \in PortStrings}
  /\ dotenv \in {[present |-> b, vars |-> v] :
                   b \in BOOLEAN, v \in {NoVars, [k \in {"PORT"} |-> <<"8", "1">>]}}
  /\ alive = TRUE
  /\ Store = LibraryStore
  /\ providers = {}
  /\ srv = NoServer
  /\ phase = "startup"
  /\ authCalls = 0
  /\ reqs = InitialSlots

NextPort == NewServer \/ NewAuth

SpecPort == InitPort /\ [][NextPort]_vars

\* a decimal numeral: an optional sign and at least one digit
IsNumeral(s) ==
  LET digits == IF s # <<>> /\ Head(s) \in {"+", "-"} THEN Tail(s) ELSE s
  IN  digits # <<>> /\ \A i \in 1..Len(digits) : digits[i] \in
        {"0", "1", "2", "3", "4", "5", "6", "7", "8", "9"}

\* the digits of a numeral without its sign and leading zeros
RECURSIVE StripZeros(_)
StripZeros(s) == IF Len(s) > 1 /\ Head(s) = "0" THEN StripZeros(Tail(s)) ELSE s

Magnitude(s) == StripZeros(IF Head(s) \in {"+", "-"} THEN Tail(s) ELSE s)

IsNonNegative(s) == IsNumeral(s) /\ (Head(s) = "-" => Magnitude(s) = <<"0">>)

\* C1: NewServer binds ":<value>" for every PORT that parses as a non-negative
\* integer (value in decimal) and ":0" for every non-numeric or absent PORT.
C1_BoundAddress ==
  srv.built =>
    /\ IsNonNegative(srv.portRead) => srv.Addr = <<":">> \o Magnitude(srv.portRead)
    /\ ~IsNumeral(srv.portRead)    => srv.Addr = <<":", "0">>

C1_Witness ==
  /\ srv.built
  /\ srv.portRead = <<"0", "8">>
  /\ srv.Addr = <<":", "8">>

---------------------------------------------------------------------------
(* Properties of the handlers *)

\* the handler of slot i has run: it returned, or it terminated the process
HandlerRan(i, handler) == reqs[i].handler = handler /\ reqs[i].st \in {"done", "fatal"}

IsJsonType(v) == v \in {<<"application/json">>, <<"application/json; charset=utf-8">>}

HelloWorldJson == <<"{", "\"", "message", "\"", ":", "\"", "Hello World", "\"", "}">>

\* C2: every request dispatched to the hello-world handler is answered with
\* status 200, the body {"message":"Hello World"} and a JSON content type.
C2_HelloWorldResponse ==
  \A i \in DOMAIN reqs :
    HandlerRan(i, "HelloWorldHandler") =>
      /\ reqs[i].w.status = 200
      /\ reqs[i].w.body = HelloWorldJson
      /\ IsJsonType(HeaderGet(reqs[i].w.header, "Content-Type"))

\* C3: the health handler answers with status 200 and the JSON serialization
\* of whatever mapping Health() returned, a down status included.
C3_HealthResponse ==
  \A i \in DOMAIN reqs :
    HandlerRan(i, "healthHandler") =>
      /\ reqs[i].w.status = 200
      /\ reqs[i].w.body = Marshal(reqs[i].health)

C3_Witness ==
  \E i \in DOMAIN reqs :
    /\ HandlerRan(i, "healthHandler")
    /\ ~reqs[i].health.nil
    /\ <<"status", "down">> \in reqs[i].health.kv
    /\ reqs[i].w.status = 200
    /\ reqs[i].w.body =
         <<"{", "\"", "error", "\"", ":", "\"", "db down", "\"", ",",
           "\"", "status", "\"", ":", "\"", "down", "\"", "}">>

\* C4: the logout handler always answers 307 with Location set to the value
\* of POST_LOGOUT_REDIRECT_URL, whatever the provider and the session.
C4_LogoutRedirects ==
  \A i \in DOMAIN reqs :
    HandlerRan(i, "logout") =>
      /\ reqs[i].w.wroteHeader
      /\ reqs[i].w.status = 307
      /\ HeaderGet(reqs[i].w.header, "Location") = Getenv(env, "POST_LOGOUT_REDIRECT_URL")

\* C5: the auth-callback handler writes one response per request: 302 to
\* APP_URI when complete-auth succeeded, 401 with the library's error message
\* when it failed.
C5_CallbackResponse ==
  \A i \in DOMAIN reqs :
    HandlerRan(i, "getAuthCallbackFunction") =>
      /\ reqs[i].w.wroteHeader
      /\ reqs[i].authErr = <<>> =>
           /\ reqs[i].w.status = 302
           /\ Getenv(env, "APP_URI") # <<>> =>
                HeaderGet(reqs[i].w.header, "Location") = Getenv(env, "APP_URI")
      /\ reqs[i].authErr # <<>> =>
           /\ reqs[i].w.status = 401
           /\ reqs[i].w.body = <<"Authentication failed: ">> \o reqs[i].authErr \o <<"\n">>

\* C6 as stated: every auth failure on the begin-auth or the callback route is
\* answered 401 with the library's error text.
C6_AuthFailureIs401 ==
  \A i \in DOMAIN reqs :
    (reqs[i].st = "done" /\ reqs[i].authErr # <<>>) =>
      /\ reqs[i].w.status = 401
      /\ \E pre \in {<<>>, <<"Authentication failed: ">>} :
           reqs[i].w.body = pre \o reqs[i].authErr \o <<"\n">>

\* C6 amended: an auth failure on the callback route is answered 401 with
\* "Authentication failed: " and the library's error text; an auth failure on
\* the begin-auth route is answered by the library itself, 400 with its text.
C6_AuthFailureByRoute ==
  \A i \in DOMAIN reqs :
    (reqs[i].st = "done" /\ reqs[i].authErr # <<>>) =>
      /\ reqs[i].handler \in {"beginAuthHandler", "getAuthCallbackFunction"}
      /\ reqs[i].handler = "getAuthCallbackFunction" =>
           /\ reqs[i].w.status = 401
           /\ reqs[i].w.body = <<"Authentication failed: ">> \o reqs[i].authErr \o <<"\n">>
      /\ reqs[i].handler = "beginAuthHandler" =>
           /\ reqs[i].w.status = 400
           /\ reqs[i].w.body = reqs[i].authErr \o <<"\n">>

C6_Witness ==
  \E i \in DOMAIN reqs :
    /\ reqs[i].st = "done"
    /\ reqs[i].handler = "getAuthCallbackFunction"
    /\ reqs[i].provider = "google"
    /\ reqs[i].authErr = ExchangeError
    /\ reqs[i].w.status = 401

---------------------------------------------------------------------------
(* Properties of the router and of the CORS middleware *)

\* the handler chain has run on the request of slot i
ChainRan(i) == reqs[i].st \in {"routed", "done", "fatal"}

\* the handler the five registered patterns name for a path, "" for none
\* ({provider} stands for one non-empty path segment)
HandlerOfPath(path) ==
  IF path = <<>> THEN "HelloWorldHandler"
  ELSE IF path = <<"health">> THEN "healthHandler"
  ELSE IF Len(path) = 2 /\ path[1] = "auth" /\ path[2] # "" THEN "beginAuthHandler"
  ELSE IF Len(path) = 3 /\ path[1] = "auth" /\ path[2] # "" /\ path[3] = "callback"
       THEN "getAuthCallbackFunction"
  ELSE IF Len(path) = 2 /\ path[1] = "logout" /\ path[2] # "" THEN "logout"
  ELSE ""

\* C7: a request reaches a handler iff its method is GET and its path matches
\* one of the five patterns, and then it reaches that pattern's own handler.
C7_DispatchIffGetAndPattern ==
  \A i \in DOMAIN reqs :
    ChainRan(i) =>
      reqs[i].handler = IF reqs[i].method = "GET" THEN HandlerOfPath(reqs[i].path) ELSE ""

C7_Witness ==
  \E i \in DOMAIN reqs :
    /\ reqs[i].st = "routed"
    /\ reqs[i].method = "GET"
    /\ reqs[i].path = <<"logout", "google">>
    /\ reqs[i].handler = "logout"
    /\ reqs[i].provider = "google"

IsPreflight(r) == r.method = "OPTIONS" /\ r.acrm # ""

StandardNotFound(w) ==
  /\ w.status = 404
  /\ w.body = <<"404 page not found", "\n">>

\* C8 as stated: every request whose path matches no registered route gets 404
\* with the standard body, whatever CORS_ALLOWED_ORIGINS is.
C8_UnknownPathIs404 ==
  \A i \in DOMAIN reqs :
    (ChainRan(i) /\ HandlerOfPath(reqs[i].path) = "") => StandardNotFound(reqs[i].w)

\* C8 amended: every request whose path matches no registered route and that is
\* not a CORS preflight gets 404 with the router's standard body, whatever
\* CORS_ALLOWED_ORIGINS is; a preflight is answered 200 by the CORS middleware
\* whatever its path.
C8_UnknownPathIs404UnlessPreflight ==
  \A i \in DOMAIN reqs :
    ChainRan(i) =>
      /\ (HandlerOfPath(reqs[i].path) = "" /\ ~IsPreflight(reqs[i])) =>
           /\ reqs[i].st = "done"
           /\ StandardNotFound(reqs[i].w)
      /\ IsPreflight(reqs[i]) =>
           /\ reqs[i].st = "done"
           /\ reqs[i].w.status = 200
           /\ reqs[i].w.body = <<>>

C8_Witness ==
  \E i \in DOMAIN reqs :
    /\ reqs[i].st = "done"
    /\ reqs[i].method = "GET"
    /\ reqs[i].path = <<"nope">>
    /\ reqs[i].origin = <<"http://", "c">>
    /\ Getenv(env, "CORS_ALLOWED_ORIGINS") = <<"http://", "a">>
    /\ StandardNotFound(reqs[i].w)

\* an origin is in an allow-list: the list holds it, or "*", or a wildcard
\* entry whose text before and after the "*" the origin starts and ends with
OriginInAllowList(list, origin) ==
  \E n \in 1..Len(list) :
    \/ list[n] = origin
    \/ list[n] = <<"*">>
    \/ \E k \in 1..Len(list[n]) :
         /\ list[n][k] = "*"
         /\ Len(origin) >= Len(list[n]) - 1
         /\ \A j \in 1..(k - 1) : origin[j] = list[n][j]
         /\ \A j \in 1..(Len(list[n]) - k) :
              origin[Len(origin) - j + 1] = list[n][Len(list[n]) - j + 1]

\* a preflight with an Origin header that the middleware has answered
AnsweredPreflight(i) ==
  reqs[i].st = "done" /\ IsPreflight(reqs[i]) /\ reqs[i].origin # <<>>

\* C9 as stated: a preflight from an origin in the allow-list gets a non-empty
\* Access-Control-Allow-Origin, one from any other origin gets none.
C9_PreflightByOrigin ==
  \A i \in DOMAIN reqs :
    AnsweredPreflight(i) =>
      (HeaderGet(reqs[i].w.header, "Access-Control-Allow-Origin") # <<>>
         <=> OriginInAllowList(srv.Handler.allowedOrigins, reqs[i].origin))

\* C9 amended: a preflight gets a non-empty Access-Control-Allow-Origin iff its
\* origin is in the allow-list, its Access-Control-Request-Method is OPTIONS or
\* one of the configured methods, and every header it asks for is configured;
\* every other preflight gets no such header.
C9_PreflightByOriginMethodHeaders ==
  \A i \in DOMAIN reqs :
    AnsweredPreflight(i) =>
      (HeaderGet(reqs[i].w.header, "Access-Control-Allow-Origin") # <<>>
         <=> /\ OriginInAllowList(srv.Handler.allowedOrigins, reqs[i].origin)
             /\ reqs[i].acrm \in {"GET", "POST", "PUT", "DELETE", "OPTIONS", "PATCH"}
             /\ reqs[i].acrh \subseteq {"Accept", "Authorization", "Content-Type", "Origin"})

C9_Witness ==
  \E i \in DOMAIN reqs :
    /\ AnsweredPreflight(i)
    /\ srv.Handler.allowedOrigins = << <<"http://", "a">>, <<"http://", "b">> >>
    /\ reqs[i].origin = <<"http://", "a">>
    /\ reqs[i].acrm = "GET"
    /\ HeaderGet(reqs[i].w.header, "Access-Control-Allow-Origin") = <<"http://", "a">>

---------------------------------------------------------------------------
(* Properties of the auth initializer *)

\* C10: once NewAuth has completed, however often, the registry holds exactly
\* one provider: "google", with GOOGLE_CLIENT_ID, GOOGLE_CLIENT_SECRET and the
\* callback URL http://localhost:<PORT>/auth/google/callback.
C10_OneGoogleProvider ==
  authCalls >= 1 =>
    providers =
      { [name        |-> "google",
         clientKey   |-> Getenv(env, "GOOGLE_CLIENT_ID"),
         secret      |-> Getenv(env, "GOOGLE_CLIENT_SECRET"),
         callbackURL |-> <<"http://localhost:">> \o Getenv(env, "PORT")
                           \o <<"/auth/google/callback">>] }

C10_Witness ==
  /\ authCalls = 2
  /\ \E p \in providers :
       /\ p.name = "google"
       /\ p.clientKey = <<"http://", "env.example/", "GOOGLE_CLIENT_ID">>
       /\ p.callbackURL = <<"http://localhost:", "8", "0", "/auth/google/callback">>

\* C11: once NewAuth has completed, gothic.Store is the store NewAuth built,
\* with max-age 2,592,000 s, path "/", http-only, same-site Lax and secure
\* equal to IsProd, which is false.
C11_StorePolicy ==
  authCalls >= 1 =>
    /\ Store.by = "NewAuth"
    /\ Store.maxAge = 2592000
    /\ Store.path = "/"
    /\ Store.httpOnly = TRUE
    /\ Store.sameSite = "Lax"
    /\ Store.secure = IsProd
    /\ Store.secure = FALSE

C11_Witness ==
  /\ authCalls >= 1
  /\ Store.by = "NewAuth"
  /\ Store.maxAge = 2592000
  /\ Store.key = <<"http://", "file.example/", "COOKIE_STORE_KEY">>

\* C12: in every environment in which NewAuth completes, the cookie store is
\* built with a non-empty signing key.
C12_KeyNonEmpty ==
  authCalls >= 1 => Store.key # <<>>

---------------------------------------------------------------------------
(* Properties of the configuration loading *)

\* C13 as stated: a variable defined both in the process environment and in
\* the .env file has, once the file is loaded, the file's value, and that is
\* the value NewAuth uses.
C13_DotenvOverrides ==
  authCalls >= 1 =>
    /\ \A k \in DOMAIN dotenv.vars : Getenv(env, k) = dotenv.vars[k]
    /\ "COOKIE_STORE_KEY" \in DOMAIN dotenv.vars =>
         Store.key = dotenv.vars["COOKIE_STORE_KEY"]

\* C13 amended: loading the .env file never changes a variable the environment
\* already defines; it only adds the file's value for a variable that is not
\* defined.  The values NewAuth uses are those of the environment after the
\* load, so for a variable defined in both the process environment wins.
C13_ProcessEnvWins ==
  /\ [](authCalls >= 1 =>
         /\ Store.key = Getenv(env, "COOKIE_STORE_KEY")
         /\ \A p \in providers : p.clientKey = Getenv(env, "GOOGLE_CLIENT_ID")
         /\ \A k \in DOMAIN dotenv.vars : k \in DOMAIN env)
  /\ [][ /\ \A k \in DOMAIN env : k \in DOMAIN env' /\ env'[k] = env[k]
         /\ \A k \in (DOMAIN env') \ (DOMAIN env) :
              k \in DOMAIN dotenv.vars /\ env'[k] = dotenv.vars[k] ]_vars

C13_Witness ==
  /\ authCalls >= 1
  /\ dotenv.vars = [k \in ConfigKeys |-> FileValueOf(k)]
  /\ env = [k \in ConfigKeys |-> EnvValueOf(k)]
  /\ Store.key = EnvValueOf("COOKIE_STORE_KEY")
  /\ \E i \in DOMAIN reqs :
       /\ HandlerRan(i, "logout")
       /\ HeaderGet(reqs[i].w.header, "Location") = EnvValueOf("POST_LOGOUT_REDIRECT_URL")

---------------------------------------------------------------------------
(* Properties of the server constructor *)

\* C14: for every PORT value the server NewServer returns has idle timeout
\* 60 s, read timeout 10 s, write timeout 30 s, and its handler is the router:
\* non-nil, with the five routes.
C14_TimeoutsAndHandler ==
  srv.built =>
    /\ srv.IdleTimeout = 60
    /\ srv.ReadTimeout = 10
    /\ srv.WriteTimeout = 30
    /\ srv.Handler # NoRouter
    /\ Len(srv.Handler.routes) = 5
    /\ \A n \in 1..Len(srv.Handler.routes) : srv.Handler.routes[n].method = "GET"
    /\ Len(srv.Handler.allowedOrigins) > 0

C14_Witness ==
  /\ srv.built
  /\ ~Atoi(srv.portRead).ok
  /\ srv.portRead # <<>>
  /\ srv.Addr = <<":", "0">>
  /\ srv.WriteTimeout = 30
  /\ srv.Handler.routes = Routes

---------------------------------------------------------------------------
(* Properties of the auth handlers *)

\* C15: the begin-auth handler never answers 500: for every provider path
\* parameter, registered or not, it puts the parameter in the request context
\* and gothic answers, with its redirect to the consent screen or with its
\* own error response.
C15_BeginAuthNever500 ==
  \A i \in DOMAIN reqs :
    HandlerRan(i, "beginAuthHandler") =>
      /\ reqs[i].st = "done"
      /\ reqs[i].w.status # 500
      /\ reqs[i].ctxProvider = reqs[i].path[2]
      /\ IF \E p \in providers : p.name = reqs[i].path[2]
         THEN /\ reqs[i].w.status = 307
              /\ HeaderGet(reqs[i].w.header, "Location") =
                   AuthURL(CHOOSE p \in providers : p.name = reqs[i].path[2])
         ELSE /\ reqs[i].w.status = 400
              /\ reqs[i].w.body = NoProviderError(reqs[i].path[2]) \o <<"\n">>

C15_Witness ==
  \E i \in DOMAIN reqs :
    /\ HandlerRan(i, "beginAuthHandler")
    /\ reqs[i].path = <<"auth", "github">>
    /\ reqs[i].ctxProvider = "github"
    /\ reqs[i].w.status = 400

---------------------------------------------------------------------------
(* Properties of process termination and of the shared configuration *)

\* the handlers that load the .env file on every request
LoadingHandlers == {"getAuthCallbackFunction", "logout"}

\* C16: when NewAuth, the callback handler or the logout handler runs while
\* the .env file cannot be loaded, the process terminates there: NewAuth does
\* not complete and installs no store and no provider, the handler writes no
\* response, and after termination nothing happens any more, so every other
\* request in flight stays unanswered.
C16_FatalWithoutDotenv ==
  /\ [](authCalls = 0 => (Store = LibraryStore /\ providers = {}))
  /\ [][ /\ alive
         /\ LoadFails(dotenv) =>
              /\ authCalls' = authCalls
              /\ Store' = Store
              /\ providers' = providers
              /\ \A i \in DOMAIN reqs :
                   (reqs[i].st = "routed" /\ reqs[i].handler \in LoadingHandlers
                      /\ reqs'[i] # reqs[i]) =>
                     /\ ~alive'
                     /\ reqs'[i] = [reqs[i] EXCEPT !.st = "fatal"]
                     /\ ~reqs'[i].w.wroteHeader
                     /\ \A j \in DOMAIN reqs : j # i => reqs'[j] = reqs[j]
         /\ ~alive' =>
              /\ LoadFails(dotenv)
              /\ \/ phase = "startup" /\ reqs' = reqs
                 \/ \E i \in DOMAIN reqs :
                      reqs[i].handler \in LoadingHandlers /\ reqs'[i].st = "fatal" ]_vars

C16_Witness ==
  /\ ~alive
  /\ \E i \in DOMAIN reqs :
       /\ reqs[i].st = "fatal"
       /\ reqs[i].handler = "logout"
       /\ ~reqs[i].w.wroteHeader
       /\ \E j \in DOMAIN reqs :
            /\ j # i
            /\ reqs[j].st = "routed"
            /\ reqs[j].handler = "HelloWorldHandler"

\* C17: once serving has begun, gothic.Store and the provider registry keep
\* the values they had when startup finished, under every interleaving of
\* concurrent hello-world, health, begin-auth, callback and logout requests.
C17_ConfigReadOnlyWhileServing ==
  /\ [](phase = "serving" =>
         /\ Store = NewCookieStore(EnvValueOf("COOKIE_STORE_KEY"))
         /\ \E p \in providers : providers = {p} /\ p.name = "google")
  /\ [][phase = "serving" => (Store' = Store /\ providers' = providers)]_vars

C17_Witness ==
  /\ phase = "serving"
  /\ \E i, j \in DOMAIN reqs :
       /\ i # j
       /\ reqs[i].st = "done" /\ reqs[i].handler = "logout"
       /\ reqs[j].st = "done" /\ reqs[j].handler = "getAuthCallbackFunction"
       /\ reqs[j].w.status = 302
  /\ Store.by = "NewAuth"
  /\ providers # {}

---------------------------------------------------------------------------
(* Properties of the CORS allow-list *)

\* the entry s without its leading and trailing blanks
Trimmed(s) ==
  LET inked == {n \in 1..Len(s) : s[n] \notin {" ", "\t"}}
  IN  IF inked = {} THEN <<>>
      ELSE SubSeq(s, CHOOSE n \in inked : \A m \in inked : n <= m,
                     CHOOSE n \in inked : \A m \in inked : n >= m)

\* the comma-separated entries of s that are not blank, trimmed, in order:
\* read s from the left, closing the current entry at every comma
RECURSIVE EntriesOf(_, _)
EntriesOf(s, current) ==
  LET closed == IF Trimmed(current) = <<>> THEN <<>> ELSE <<Trimmed(current)>>
  IN  IF s = <<>> THEN closed
      ELSE IF Head(s) = "," THEN closed \o EntriesOf(Tail(s), <<>>)
      ELSE EntriesOf(Tail(s), Append(current, Head(s)))

\* C18: the allow-list RegisterRoutes gives the CORS middleware is the list of
\* the non-blank comma-separated entries of CORS_ALLOWED_ORIGINS, trimmed, in
\* order; it is {"https://*", "http://*"} when the variable is unset, empty or
\* holds only blank entries.
C18_AllowListFromEnv ==
  srv.built =>
    LET value   == IF "CORS_ALLOWED_ORIGINS" \in DOMAIN env
                   THEN env["CORS_ALLOWED_ORIGINS"] ELSE <<>>
        entries == EntriesOf(value, <<>>)
    IN  srv.Handler.allowedOrigins =
          IF entries = <<>> THEN << <<"https://", "*">>, <<"http://", "*">> >> ELSE entries

C18_Witness ==
  /\ srv.built
  /\ Getenv(env, "CORS_ALLOWED_ORIGINS") = <<" ", "a", ",", "b">>
  /\ srv.Handler.allowedOrigins = << <<"a">>, <<"b">> >>

---------------------------------------------------------------------------
(* Properties relating the server and the auth initializer *)

\* the port of the bound address ":<port>"
PortOfAddr(addr) == Tail(addr)

\* C19: for every PORT value, the port in the callback URL NewAuth registers is
\* the port the server NewServer builds binds to, an absent or non-numeric
\* PORT included.
C19_CallbackPortIsBoundPort ==
  (srv.built /\ authCalls >= 1) =>
    \A p \in providers :
      p.callbackURL =
        <<"http://localhost:">> \o PortOfAddr(srv.Addr) \o <<"/auth/google/callback">>

---------------------------------------------------------------------------
(* Properties of concurrent auth requests *)

AuthHandlers == {"beginAuthHandler", "getAuthCallbackFunction"}

\* C20: under every interleaving of concurrent begin-auth and callback
\* requests, the provider name a request hands to gothic is its own path
\* parameter, and gothic's answer is about that provider, never about the
\* provider of another request in flight.
C20_OwnProvider ==
  \A i \in DOMAIN reqs :
    (reqs[i].st = "done" /\ reqs[i].handler \in AuthHandlers) =>
      /\ reqs[i].ctxProvider = reqs[i].path[2]
      /\ reqs[i].path[2] = "google" =>
           reqs[i].authErr \notin {NoProviderError(n) : n \in {"google", "github"}}
      /\ reqs[i].path[2] = "github" => reqs[i].authErr = NoProviderError("github")

C20_Witness ==
  \E i, j \in DOMAIN reqs :
    /\ i < j
    /\ reqs[i].st = "routed" /\ reqs[i].handler = "getAuthCallbackFunction"
    /\ reqs[i].provider = "github"
    /\ reqs[j].st = "done" /\ reqs[j].handler = "beginAuthHandler"
    /\ reqs[j].ctxProvider = "google"
    /\ reqs[j].w.status = 307

====
